---- MODULE Spec2Model ----
(***************************************************************************)
(* Model of the adaptive synchronisation layer and of the guarded destroy  *)
(* of reference-counted datatypes (service_datatype_destroy.c and the      *)
(* mutex header that follows it in the same file).                         *)
(*                                                                         *)
(* Three specifications share the module:                                  *)
(*   Spec        destroy calls issued one at a time on one object          *)
(*   SpecMutex   threads using CCS_THREAD_LOCK / TRYLOCK / UNLOCK /        *)
(*               SCOPED_LOCK on one mutex, with ccs_set_using_threads      *)
(*   SpecAtomic  threads using CCS_THREAD_ADD32 / CCS_ATOMIC_CMPSET on     *)
(*               one memory word                                           *)
(***************************************************************************)
EXTENDS Integers, Sequences, FiniteSets, TLC

(* ---- bounds ---- *)
MaxRef == 3
NumHandles == 3

Handles == 1..NumHandles
DatatypeFlags == {"PREDEFINED", "OTHER"}

VARIABLES
    flags,                \* pData->flags, as the set of flag bits that are set
    obj_reference_count,  \* pData->super.obj_reference_count
    allocated,            \* the object has not been freed by OBJ_RELEASE
    dt,                   \* the callers' handles: "pData" or "NULL"
    destroy_call          \* the latest call: handle used and value returned,
                          \* and the number of calls that released so far

destroyVars == <<flags, obj_reference_count, allocated, dt, destroy_call>>

(* ---- bounds of the mutex scenario ---- *)
NumThreads == 2
MaxSets == 2

Threads == 1..NumThreads
\* "MT": CCS_ENABLE_MULTI_THREADS; "PLAIN": neither that nor CCS_ENABLE_DEBUG
Builds == {"MT", "PLAIN"}

VARIABLES
    build,             \* the compile-time configuration
    ccs_uses_threads   \* the thread-mode hint

cfgVars == <<build, ccs_uses_threads>>

VARIABLES
    m_owner,           \* the platform mutex: the thread that holds it, 0 = unlocked
    cur,               \* per thread: the macro it is executing, "none" between macros
    prog,              \* per thread: the statements of that macro still to execute
    holds,             \* per thread: it is between a completed lock / successful
                       \* trylock and the matching unlock
    action_runs,       \* per thread: executions of the action in its latest scoped lock
    mop,               \* the step just taken: thread, macro, statement, result
                       \* (and the argument of ccs_set_using_threads, 1 = true)
    hint_sets,         \* number of ccs_set_using_threads calls so far
    always_threaded    \* the hint was true initially and has been true ever since

mutexVars == <<m_owner, cur, prog, holds, action_runs, mop, hint_sets, always_threaded>>

(* ---- bounds of the atomic scenario ---- *)
MaxVal == 1
MaxDelta == 1

Vals == 0..MaxVal
Deltas == (-MaxDelta..MaxDelta) \ {0}

VARIABLES
    mem,               \* the word *x the atomic operations work on
    mem0,              \* its value before the first operation
    acall,             \* per thread: its call (operation, arguments, result)
    aprog,             \* per thread: the statements of the call still to execute
    atmp,              \* per thread: the value it read from *x
    aevt               \* the step just taken: thread, operation, statement

atomicVars == <<mem, mem0, acall, aprog, atmp, aevt>>

(* ---- bound of the sequential comparison of the two paths ---- *)
MaxCalls == 3

\* the configurations a single-threaded caller can run the atomic macros in:
\* multithread build with the hint true, with the hint false, and a build
\* without thread support
Paths == {"atomic", "fallback", "nothreads"}

VARIABLES
    smem,              \* per path: the word *x
    sret,              \* per path: the value returned by the latest call
    scall              \* the latest call, the number of calls so far and the
                       \* initial value of the word

seqVars == <<smem, sret, scall>>

(* ---- bound of the diagnostic-build scenario ---- *)
MaxDepth == 2

\* the three configurations in which no real lock is taken: multithread
\* build with the hint false, CCS_ENABLE_DEBUG build, plain build
Configs == {"MT", "DEBUG", "PLAIN"}

\* __FILE__ / __LINE__ of the places the macros are used at
Sites == {[file |-> "a.c", line |-> 10], [file |-> "b.c", line |-> 20]}

VARIABLES
    mutex_dbg,         \* the debug fields of the mutex: m_lock_debug,
                       \* m_lock_file, m_lock_line
    service_mutex_check_locks,
    c_holds,           \* the caller is between a lock / successful trylock
                       \* and its unlock
    c_in_action,       \* the caller is inside the action of a scoped lock
    well_behaved,      \* so far the caller has acquired only what it did not
                       \* hold and released only what it held, nothing nested
    devt,              \* the step just taken: macro, site, result, warning
    obs                \* per configuration: what the caller observed of its
                       \* latest call

dbgVars == <<mutex_dbg, service_mutex_check_locks, c_holds, c_in_action,
             well_behaved, devt, obs>>

\* destroy called by several threads: where each thread is in the
\* function and the handle it was called with (0: none)
VARIABLES dpc, dh

concVars == <<dpc, dh>>

extraVars == <<seqVars, dbgVars, concVars>>

vars == <<destroyVars, cfgVars, mutexVars, atomicVars, extraVars>>

(* ---- service_datatype_destroy ---- *)

\* variants of the guard: the floor off by one either way, the flag test lost
GuardRejects_floor0(f, rc) == ("PREDEFINED" \in f) /\ (rc < 1)
GuardRejects_floor2(f, rc) == ("PREDEFINED" \in f) /\ (rc <= 2)
GuardRejects_anyflag(f, rc) == rc <= 1

\* the guard of lines 30-31
GuardRejects(f, rc) == ("PREDEFINED" \in f) /\ (rc <= 1)

\* OBJ_RELEASE: decrement, and free when the count reaches 0
OBJ_RELEASE(rc, alloc) ==
    [rc |-> rc - 1, allocated |-> alloc /\ (rc - 1 # 0)]

\* variant: the release without the guard
service_datatype_destroy_unguarded(h) ==
    /\ dt[h] # "NULL"
    /\ obj_reference_count' = OBJ_RELEASE(obj_reference_count, allocated).rc
    /\ allocated' = OBJ_RELEASE(obj_reference_count, allocated).allocated
    /\ dt' = [dt EXCEPT ![h] = "NULL"]
    /\ destroy_call' = [h |-> h, ret |-> "CCS_SUCCESS",
                             releases |-> destroy_call.releases + 1]
    /\ UNCHANGED flags

service_datatype_destroy(h) ==
    /\ dt[h] # "NULL"
    /\ IF GuardRejects(flags, obj_reference_count)
       THEN /\ destroy_call' = [h |-> h, ret |-> "CCS_ERROR", releases |-> destroy_call.releases]
            /\ UNCHANGED <<flags, obj_reference_count, allocated, dt>>
       ELSE /\ obj_reference_count' = OBJ_RELEASE(obj_reference_count, allocated).rc
            /\ allocated' = OBJ_RELEASE(obj_reference_count, allocated).allocated
            /\ dt' = [dt EXCEPT ![h] = "NULL"]
            /\ destroy_call' = [h |-> h, ret |-> "CCS_SUCCESS",
                             releases |-> destroy_call.releases + 1]
            /\ UNCHANGED flags

LiveHandles(d) == {h \in Handles : d[h] # "NULL"}

DestroyInit ==
    /\ flags \in SUBSET DatatypeFlags
    /\ obj_reference_count \in 1..MaxRef
    /\ allocated = TRUE
    /\ dt \in [Handles -> {"pData", "NULL"}]
    /\ LiveHandles(dt) # {}
    \* every handle of an ordinary object owns one reference; the handles of
    \* a predefined object are borrowed from the library's own reference
    /\ ("PREDEFINED" \notin flags) => Cardinality(LiveHandles(dt)) <= obj_reference_count
    /\ destroy_call = [h |-> 0, ret |-> "none", releases |-> 0]

DestroyIdle ==
    /\ flags = {}
    /\ obj_reference_count = 1
    /\ allocated = TRUE
    /\ dt = [h \in Handles |-> "NULL"]
    /\ destroy_call = [h |-> 0, ret |-> "none", releases |-> 0]

Destroy == \E h \in Handles : service_datatype_destroy(h) /\ UNCHANGED <<cfgVars, mutexVars, atomicVars, extraVars>>

(* ---- thread-mode flag ---- *)

\* variant: the hint stored whatever the build
ccs_set_using_threads_anybuild(b, have) == have

\* the new value of ccs_uses_threads, which is also the value returned
ccs_set_using_threads(b, have) == IF b = "MT" THEN have ELSE FALSE

(* ---- the mutex macros: the statements each expands to ---- *)

\* variant: the test of the hint inverted
CCS_THREAD_LOCK_inverted(b, using) ==
    IF b = "MT"
    THEN (IF ~using THEN <<"service_mutex_lock">> ELSE <<>>)
    ELSE (IF b = "DEBUG" THEN <<"debug_lock">> ELSE <<>>)

CCS_THREAD_LOCK(b, using) ==
    IF b = "MT"
    THEN (IF using THEN <<"service_mutex_lock">> ELSE <<>>)
    ELSE (IF b = "DEBUG" THEN <<"debug_lock">> ELSE <<>>)

\* an empty expansion is the constant 0
CCS_THREAD_TRYLOCK(b, using) ==
    IF b = "MT"
    THEN (IF using THEN <<"service_mutex_trylock">> ELSE <<>>)
    ELSE (IF b = "DEBUG" THEN <<"service_thread_debug_trylock">> ELSE <<>>)

\* variant: the hint not consulted
CCS_THREAD_UNLOCK_unconditional(b, using) ==
    IF b = "MT" THEN <<"service_mutex_unlock">>
    ELSE (IF b = "DEBUG" THEN <<"debug_unlock">> ELSE <<>>)

CCS_THREAD_UNLOCK(b, using) ==
    IF b = "MT"
    THEN (IF using THEN <<"service_mutex_unlock">> ELSE <<>>)
    ELSE (IF b = "DEBUG" THEN <<"debug_unlock">> ELSE <<>>)

\* variant: the unlock after the action forgotten
CCS_THREAD_SCOPED_LOCK_nounlock(b, using) ==
    IF b = "MT"
    THEN (IF using
          THEN <<"service_mutex_lock", "action">>
          ELSE <<"action">>)
    ELSE (IF b = "DEBUG"
          THEN <<"debug_scoped_enter", "action", "debug_scoped_exit">>
          ELSE <<"action">>)

\* variant: the lock forgotten
CCS_THREAD_SCOPED_LOCK_nolock(b, using) ==
    IF b = "MT"
    THEN (IF using
          THEN <<"action", "service_mutex_unlock">>
          ELSE <<"action">>)
    ELSE (IF b = "DEBUG"
          THEN <<"debug_scoped_enter", "action", "debug_scoped_exit">>
          ELSE <<"action">>)

CCS_THREAD_SCOPED_LOCK(b, using) ==
    IF b = "MT"
    THEN (IF using
          THEN <<"service_mutex_lock", "action", "service_mutex_unlock">>
          ELSE <<"action">>)
    ELSE (IF b = "DEBUG"
          THEN <<"debug_scoped_enter", "action", "debug_scoped_exit">>
          ELSE <<"action">>)

(* ---- the platform mutex (mutex_unix.h / mutex_windows.h) ---- *)

\* blocks until the mutex is free, then takes it
service_mutex_lock_enabled(owner) == owner = 0
service_mutex_lock_owner(owner, t) == t

\* 0 if the mutex was acquired, 1 otherwise
service_mutex_trylock_ret(owner) == IF owner = 0 THEN 0 ELSE 1
service_mutex_trylock_owner(owner, t) == IF owner = 0 THEN t ELSE owner

\* unlocking a mutex the caller does not hold is undefined: it may or
\* may not release it
service_mutex_unlock_owners(owner, t) == IF owner = t THEN {0} ELSE {owner, 0}

(* ---- threads executing the macros ---- *)

\* what the completion of a macro means for the caller
HoldsAfter(t, op, ret) ==
    CASE op = "lock" -> TRUE
      [] op = "trylock" -> (ret = 0)
      [] op = "unlock" -> FALSE
      [] OTHER -> holds[t]

\* thread t starts macro op, whose expansion under the current hint is p
Begin(t, op, p) ==
    /\ cur[t] = "none"
    /\ prog' = [prog EXCEPT ![t] = p]
    /\ cur' = [cur EXCEPT ![t] = IF p = <<>> THEN "none" ELSE op]
    /\ holds' = [holds EXCEPT ![t] = IF p = <<>> THEN HoldsAfter(t, op, 0) ELSE @]
    /\ mop' = [t |-> t, op |-> op, stmt |-> "call", done |-> (p = <<>>), ret |-> 0,
               arg |-> 0]

\* thread t has executed the first statement of prog[t], with result ret
Advance(t, ret) ==
    LET rest == Tail(prog[t]) IN
    /\ prog' = [prog EXCEPT ![t] = rest]
    /\ cur' = [cur EXCEPT ![t] = IF rest = <<>> THEN "none" ELSE @]
    /\ holds' = [holds EXCEPT ![t] = IF rest = <<>> THEN HoldsAfter(t, cur[t], ret) ELSE @]
    /\ mop' = [t |-> t, op |-> cur[t], stmt |-> Head(prog[t]),
               done |-> (rest = <<>>), ret |-> ret, arg |-> 0]

AtHead(t, stmt) == prog[t] # <<>> /\ Head(prog[t]) = stmt

mutexLock(t) ==
    /\ ~holds[t]
    /\ Begin(t, "lock", CCS_THREAD_LOCK(build, ccs_uses_threads))
    /\ UNCHANGED <<m_owner, action_runs, hint_sets, always_threaded>>

mutexTryLock(t) ==
    /\ ~holds[t]
    /\ Begin(t, "trylock", CCS_THREAD_TRYLOCK(build, ccs_uses_threads))
    /\ UNCHANGED <<m_owner, action_runs, hint_sets, always_threaded>>

mutexUnlock(t) ==
    /\ holds[t]
    /\ Begin(t, "unlock", CCS_THREAD_UNLOCK(build, ccs_uses_threads))
    /\ UNCHANGED <<m_owner, action_runs, hint_sets, always_threaded>>

withLock(t) ==
    /\ ~holds[t]
    /\ Begin(t, "scoped", CCS_THREAD_SCOPED_LOCK(build, ccs_uses_threads))
    /\ action_runs' = [action_runs EXCEPT ![t] = 0]
    /\ UNCHANGED <<m_owner, hint_sets, always_threaded>>

service_mutex_lock(t) ==
    /\ AtHead(t, "service_mutex_lock")
    /\ service_mutex_lock_enabled(m_owner)
    /\ m_owner' = service_mutex_lock_owner(m_owner, t)
    /\ Advance(t, 0)
    /\ UNCHANGED <<action_runs, hint_sets, always_threaded>>

service_mutex_trylock(t) ==
    /\ AtHead(t, "service_mutex_trylock")
    /\ m_owner' = service_mutex_trylock_owner(m_owner, t)
    /\ Advance(t, service_mutex_trylock_ret(m_owner))
    /\ UNCHANGED <<action_runs, hint_sets, always_threaded>>

service_mutex_unlock(t) ==
    /\ AtHead(t, "service_mutex_unlock")
    /\ m_owner' \in service_mutex_unlock_owners(m_owner, t)
    /\ Advance(t, 0)
    /\ UNCHANGED <<action_runs, hint_sets, always_threaded>>

\* the action of a scoped lock starts ...
action_begin(t) ==
    /\ AtHead(t, "action")
    /\ prog' = [prog EXCEPT ![t] = <<"action_running">> \o Tail(@)]
    /\ mop' = [t |-> t, op |-> cur[t], stmt |-> "action", done |-> FALSE, ret |-> 0,
               arg |-> 0]
    /\ UNCHANGED <<m_owner, cur, holds, action_runs, hint_sets, always_threaded>>

\* ... and runs to its end
action_end(t) ==
    /\ AtHead(t, "action_running")
    /\ action_runs' = [action_runs EXCEPT ![t] = @ + 1]
    /\ Advance(t, 0)
    /\ UNCHANGED <<m_owner, hint_sets, always_threaded>>

setThreadMode(have) ==
    /\ hint_sets < MaxSets
    /\ hint_sets' = hint_sets + 1
    /\ ccs_uses_threads' = ccs_set_using_threads(build, have)
    /\ always_threaded' = (always_threaded /\ ccs_uses_threads')
    /\ mop' = [t |-> 0, op |-> "set", stmt |-> "call", done |-> TRUE,
               ret |-> IF ccs_uses_threads' THEN 1 ELSE 0,
               arg |-> IF have THEN 1 ELSE 0]
    /\ UNCHANGED <<build, m_owner, cur, prog, holds, action_runs>>

CfgInit ==
    /\ build \in Builds
    /\ ccs_uses_threads \in BOOLEAN

CfgIdle ==
    /\ build = "MT"
    /\ ccs_uses_threads = FALSE

MutexInit ==
    /\ m_owner = 0
    /\ cur = [t \in Threads |-> "none"]
    /\ prog = [t \in Threads |-> <<>>]
    /\ holds = [t \in Threads |-> FALSE]
    /\ action_runs = [t \in Threads |-> 0]
    /\ mop = [t |-> 0, op |-> "none", stmt |-> "none", done |-> FALSE, ret |-> 0,
             arg |-> 0]
    /\ hint_sets = 0
    /\ always_threaded = ccs_uses_threads

Lock == \E t \in Threads : mutexLock(t) /\ UNCHANGED <<destroyVars, cfgVars, atomicVars, extraVars>>
TryLock == \E t \in Threads : mutexTryLock(t) /\ UNCHANGED <<destroyVars, cfgVars, atomicVars, extraVars>>
Unlock == \E t \in Threads : mutexUnlock(t) /\ UNCHANGED <<destroyVars, cfgVars, atomicVars, extraVars>>
ScopedLock == \E t \in Threads : withLock(t) /\ UNCHANGED <<destroyVars, cfgVars, atomicVars, extraVars>>
PlatformLock == \E t \in Threads : service_mutex_lock(t) /\ UNCHANGED <<destroyVars, cfgVars, atomicVars, extraVars>>
PlatformTryLock == \E t \in Threads : service_mutex_trylock(t) /\ UNCHANGED <<destroyVars, cfgVars, atomicVars, extraVars>>
PlatformUnlock == \E t \in Threads : service_mutex_unlock(t) /\ UNCHANGED <<destroyVars, cfgVars, atomicVars, extraVars>>
ActionBegin == \E t \in Threads : action_begin(t) /\ UNCHANGED <<destroyVars, cfgVars, atomicVars, extraVars>>
ActionEnd == \E t \in Threads : action_end(t) /\ UNCHANGED <<destroyVars, cfgVars, atomicVars, extraVars>>
SetThreadMode == \E have \in BOOLEAN : setThreadMode(have) /\ UNCHANGED <<destroyVars, atomicVars, extraVars>>

(* ---- the atomic operations ---- *)

\* variant: the atomic instruction used when the hint is false, the plain
\* read-modify-write when it is true
CCS_THREAD_ADD32_inverted(b, using) ==
    IF b = "MT"
    THEN (IF ~using THEN <<"service_atomic_add_32">> ELSE <<"load", "add_store">>)
    ELSE <<"load", "add_store">>

\* (*x += y) is a read of *x followed by a write of the sum
CCS_THREAD_ADD32(b, using) ==
    IF b = "MT"
    THEN (IF using THEN <<"service_atomic_add_32">> ELSE <<"load", "add_store">>)
    ELSE <<"load", "add_store">>

\* variant: the comparison inverted
CCS_CMPSET_inverted(x, y, z) ==
    IF x # y THEN [mem |-> z, ret |-> 1] ELSE [mem |-> x, ret |-> 0]

\* ((*(x) == (y)) ? ((*(x) = (z)), 1) : 0), x being the value read from *x
CCS_CMPSET(x, y, z) ==
    IF x = y THEN [mem |-> z, ret |-> 1] ELSE [mem |-> x, ret |-> 0]

\* variant: the plain compare-and-assign used although the hint is true
CCS_ATOMIC_CMPSET_inverted(b, using) ==
    IF b = "MT"
    THEN (IF ~using THEN <<"service_atomic_cmpset">> ELSE <<"load", "cmp_store">>)
    ELSE <<"load", "cmp_store">>

CCS_ATOMIC_CMPSET(b, using) ==
    IF b = "MT"
    THEN (IF using THEN <<"service_atomic_cmpset">> ELSE <<"load", "cmp_store">>)
    ELSE <<"load", "cmp_store">>

(* ---- the platform atomics (service/sys/atomic.h) ---- *)

\* adds in one indivisible step and returns the new value
service_atomic_add_32_result(x, y) == [mem |-> x + y, ret |-> x + y]

\* compares and, if equal, stores in one indivisible step; 1 on success
service_atomic_cmpset_result(x, y, z) ==
    IF x = y THEN [mem |-> z, ret |-> 1] ELSE [mem |-> x, ret |-> 0]

(* ---- threads executing the atomic operations ---- *)

\* a false hint guarantees that the process has one thread only
ActiveThreads ==
    IF build = "MT" /\ ccs_uses_threads THEN Threads ELSE {1}

NoCall == [op |-> "none", a |-> 0, b |-> 0, ret |-> 0, done |-> FALSE]

\* thread t has executed the first statement of aprog[t]
AStep(t, r, finished) ==
    /\ aprog' = [aprog EXCEPT ![t] = Tail(@)]
    /\ acall' = [acall EXCEPT ![t] = [@ EXCEPT !.ret = r, !.done = finished]]
    /\ aevt' = [t |-> t, op |-> acall[t].op, stmt |-> Head(aprog[t]), done |-> finished]

AAtHead(t, stmt) == aprog[t] # <<>> /\ Head(aprog[t]) = stmt

atomicAdd32(t, y) ==
    /\ t \in ActiveThreads
    /\ acall[t].op = "none"
    /\ acall' = [acall EXCEPT ![t] = [op |-> "add", a |-> y, b |-> 0, ret |-> 0, done |-> FALSE]]
    /\ aprog' = [aprog EXCEPT ![t] = CCS_THREAD_ADD32(build, ccs_uses_threads)]
    /\ aevt' = [t |-> t, op |-> "add", stmt |-> "call", done |-> FALSE]
    /\ UNCHANGED <<mem, mem0, atmp>>

compareAndSet(t, y, z) ==
    /\ t \in ActiveThreads
    /\ acall[t].op = "none"
    /\ acall' = [acall EXCEPT ![t] = [op |-> "cmpset", a |-> y, b |-> z, ret |-> 0, done |-> FALSE]]
    /\ aprog' = [aprog EXCEPT ![t] = CCS_ATOMIC_CMPSET(build, ccs_uses_threads)]
    /\ aevt' = [t |-> t, op |-> "cmpset", stmt |-> "call", done |-> FALSE]
    /\ UNCHANGED <<mem, mem0, atmp>>

service_atomic_add_32(t) ==
    /\ AAtHead(t, "service_atomic_add_32")
    /\ mem' = service_atomic_add_32_result(mem, acall[t].a).mem
    /\ AStep(t, service_atomic_add_32_result(mem, acall[t].a).ret, TRUE)
    /\ UNCHANGED <<mem0, atmp>>

service_atomic_cmpset(t) ==
    /\ AAtHead(t, "service_atomic_cmpset")
    /\ mem' = service_atomic_cmpset_result(mem, acall[t].a, acall[t].b).mem
    /\ AStep(t, service_atomic_cmpset_result(mem, acall[t].a, acall[t].b).ret, TRUE)
    /\ UNCHANGED <<mem0, atmp>>

\* the read of *x in (*x += y) and in (*(x) == (y))
plain_load(t) ==
    /\ AAtHead(t, "load")
    /\ atmp' = [atmp EXCEPT ![t] = mem]
    /\ AStep(t, 0, FALSE)
    /\ UNCHANGED <<mem, mem0>>

\* the write of (*x += y); the value of the expression is the sum
plain_add_store(t) ==
    /\ AAtHead(t, "add_store")
    /\ mem' = atmp[t] + acall[t].a
    /\ AStep(t, atmp[t] + acall[t].a, TRUE)
    /\ UNCHANGED <<mem0, atmp>>

\* the rest of CCS_CMPSET: the assignment if the comparison succeeded
plain_cmp_store(t) ==
    /\ AAtHead(t, "cmp_store")
    /\ mem' = IF CCS_CMPSET(atmp[t], acall[t].a, acall[t].b).ret = 1
              THEN CCS_CMPSET(atmp[t], acall[t].a, acall[t].b).mem
              ELSE mem
    /\ AStep(t, CCS_CMPSET(atmp[t], acall[t].a, acall[t].b).ret, TRUE)
    /\ UNCHANGED <<mem0, atmp>>

AtomicStart(m) ==
    /\ mem = m
    /\ mem0 = m
    /\ acall = [t \in Threads |-> NoCall]
    /\ aprog = [t \in Threads |-> <<>>]
    /\ atmp = [t \in Threads |-> 0]
    /\ aevt = [t |-> 0, op |-> "none", stmt |-> "none", done |-> FALSE]

AtomicInit == \E m \in Vals : AtomicStart(m)

AtomicIdle == AtomicStart(0)

AtomicAdd == \E t \in Threads, y \in Deltas : atomicAdd32(t, y) /\ UNCHANGED <<destroyVars, cfgVars, mutexVars, extraVars>>
CompareAndSet == \E t \in Threads, y, z \in Vals : compareAndSet(t, y, z) /\ UNCHANGED <<destroyVars, cfgVars, mutexVars, extraVars>>
PlatformAdd == \E t \in Threads : service_atomic_add_32(t) /\ UNCHANGED <<destroyVars, cfgVars, mutexVars, extraVars>>
PlatformCmpset == \E t \in Threads : service_atomic_cmpset(t) /\ UNCHANGED <<destroyVars, cfgVars, mutexVars, extraVars>>
PlainLoad == \E t \in Threads : plain_load(t) /\ UNCHANGED <<destroyVars, cfgVars, mutexVars, extraVars>>
PlainAddStore == \E t \in Threads : plain_add_store(t) /\ UNCHANGED <<destroyVars, cfgVars, mutexVars, extraVars>>
PlainCmpStore == \E t \in Threads : plain_cmp_store(t) /\ UNCHANGED <<destroyVars, cfgVars, mutexVars, extraVars>>

(* ---- one caller running the same calls on every path ---- *)

PathBuild(p) == IF p = "nothreads" THEN "PLAIN" ELSE "MT"
PathHint(p) == p = "atomic"

\* the statements of an atomic macro executed one after the other by a
\* caller that nothing interleaves with: x is the word, tmp the value read
RECURSIVE RunAtomic(_, _, _, _, _, _)
RunAtomic(stmts, x, tmp, y, z, r) ==
    IF stmts = <<>> THEN [mem |-> x, ret |-> r]
    ELSE LET st == Head(stmts)
             rest == Tail(stmts)
         IN  CASE st = "service_atomic_add_32" ->
                    RunAtomic(rest, service_atomic_add_32_result(x, y).mem, tmp, y, z,
                              service_atomic_add_32_result(x, y).ret)
               [] st = "service_atomic_cmpset" ->
                    RunAtomic(rest, service_atomic_cmpset_result(x, y, z).mem, tmp, y, z,
                              service_atomic_cmpset_result(x, y, z).ret)
               [] st = "load" -> RunAtomic(rest, x, x, y, z, r)
               [] st = "add_store" -> RunAtomic(rest, tmp + y, tmp, y, z, tmp + y)
               [] st = "cmp_store" ->
                    RunAtomic(rest,
                              IF CCS_CMPSET(tmp, y, z).ret = 1
                              THEN CCS_CMPSET(tmp, y, z).mem ELSE x,
                              tmp, y, z, CCS_CMPSET(tmp, y, z).ret)

SeqMacro(op, p) ==
    IF op = "add"
    THEN CCS_THREAD_ADD32(PathBuild(p), PathHint(p))
    ELSE CCS_ATOMIC_CMPSET(PathBuild(p), PathHint(p))

\* the values a compare-and-set is called with: those the word can take
\* after an addition
SeqVals == (-MaxDelta)..(MaxVal + MaxDelta)

\* the caller makes the call op(y, z) on every path
seqCall(op, y, z) ==
    /\ scall.n < MaxCalls
    /\ smem' = [p \in Paths |-> RunAtomic(SeqMacro(op, p), smem[p], 0, y, z, 0).mem]
    /\ sret' = [p \in Paths |-> RunAtomic(SeqMacro(op, p), smem[p], 0, y, z, 0).ret]
    /\ scall' = [op |-> op, a |-> y, b |-> z, n |-> scall.n + 1, m0 |-> scall.m0]

SeqStart(m) ==
    /\ smem = [p \in Paths |-> m]
    /\ sret = [p \in Paths |-> 0]
    /\ scall = [op |-> "none", a |-> 0, b |-> 0, n |-> 0, m0 |-> m]

SeqInit == \E m \in Vals : SeqStart(m)

SeqIdle == SeqStart(0)

SeqAdd == \E y \in Deltas : seqCall("add", y, 0) /\ UNCHANGED <<destroyVars, cfgVars, mutexVars, atomicVars, dbgVars, concVars>>
SeqCmpset == \E y, z \in SeqVals : seqCall("cmpset", y, z) /\ UNCHANGED <<destroyVars, cfgVars, mutexVars, atomicVars, dbgVars, concVars>>

(* ---- the diagnostic build: the debug fields of the mutex ---- *)

\* variant: the site not recorded
debug_lock_nosite(m, check, site) ==
    [m |-> [m EXCEPT !.m_lock_debug = @ + 1],
     warn |-> IF check /\ 1 # m.m_lock_debug + 1 THEN "already locked" ELSE "none",
     ret |-> 0]

\* CCS_THREAD_LOCK, lines 247-259
debug_lock(m, check, site) ==
    [m |-> [m_lock_debug |-> m.m_lock_debug + 1,
            m_lock_file |-> site.file,
            m_lock_line |-> site.line],
     warn |-> IF check /\ 1 # m.m_lock_debug + 1 THEN "already locked" ELSE "none",
     ret |-> 0]

\* variant: the test for a free mutex inverted
service_thread_debug_trylock_inverted(m, check, site) ==
    IF 0 # m.m_lock_debug
    THEN [m |-> [m_lock_debug |-> m.m_lock_debug + 1,
                 m_lock_file |-> site.file,
                 m_lock_line |-> site.line],
          warn |-> "none", ret |-> 0]
    ELSE [m |-> m,
          warn |-> IF check THEN "trylock already locked" ELSE "none",
          ret |-> -1]

\* variant: the depth counted on the failing path as well
service_thread_debug_trylock_counts(m, check, site) ==
    IF 0 = m.m_lock_debug
    THEN [m |-> [m_lock_debug |-> m.m_lock_debug + 1,
                 m_lock_file |-> site.file,
                 m_lock_line |-> site.line],
          warn |-> "none", ret |-> 0]
    ELSE [m |-> [m EXCEPT !.m_lock_debug = @ + 1],
          warn |-> IF check THEN "trylock already locked" ELSE "none",
          ret |-> -1]

\* lines 283-304
service_thread_debug_trylock(m, check, site) ==
    IF 0 = m.m_lock_debug
    THEN [m |-> [m_lock_debug |-> m.m_lock_debug + 1,
                 m_lock_file |-> site.file,
                 m_lock_line |-> site.line],
          warn |-> "none", ret |-> 0]
    ELSE [m |-> m,
          warn |-> IF check THEN "trylock already locked" ELSE "none",
          ret |-> -1]

\* variant: the second test is for a depth that is still positive
debug_unlock_stillheld(m, check, site) ==
    LET d == m.m_lock_debug - 1 IN
    IF check /\ 0 > d
    THEN [m |-> [m EXCEPT !.m_lock_debug = d], warn |-> "double locked", ret |-> 0]
    ELSE IF check /\ 0 < d
         THEN [m |-> [m EXCEPT !.m_lock_debug = d], warn |-> "not locked", ret |-> 0]
         ELSE [m |-> [m_lock_debug |-> d, m_lock_file |-> "NULL", m_lock_line |-> 0],
               warn |-> "none", ret |-> 0]

\* CCS_THREAD_UNLOCK, lines 332-345
debug_unlock(m, check, site) ==
    LET d == m.m_lock_debug - 1 IN
    IF check /\ 0 > d
    THEN [m |-> [m EXCEPT !.m_lock_debug = d], warn |-> "double locked", ret |-> 0]
    ELSE IF check /\ 0 > d
         THEN [m |-> [m EXCEPT !.m_lock_debug = d], warn |-> "not locked", ret |-> 0]
         ELSE [m |-> [m_lock_debug |-> d, m_lock_file |-> "NULL", m_lock_line |-> 0],
               warn |-> "none", ret |-> 0]

\* CCS_THREAD_SCOPED_LOCK, lines 381-388: the part before the action
debug_scoped_enter(m, check, site) ==
    [m |-> [m EXCEPT !.m_lock_debug = @ - 1],
     warn |-> IF 0 # m.m_lock_debug THEN "scoped already locked" ELSE "none",
     ret |-> 0]

\* line 390: the part after the action
debug_scoped_exit(m, check, site) ==
    [m |-> [m EXCEPT !.m_lock_debug = @ + 1], warn |-> "none", ret |-> 0]

DebugStmt(st, m, check, site) ==
    CASE st = "debug_lock" -> debug_lock(m, check, site)
      [] st = "service_thread_debug_trylock" -> service_thread_debug_trylock(m, check, site)
      [] st = "debug_unlock" -> debug_unlock(m, check, site)
      [] st = "debug_scoped_enter" -> debug_scoped_enter(m, check, site)
      [] st = "debug_scoped_exit" -> debug_scoped_exit(m, check, site)

DebugStmts == {"debug_lock", "service_thread_debug_trylock", "debug_unlock",
               "debug_scoped_enter", "debug_scoped_exit"}

\* the statements of a mutex macro executed one after the other by the only
\* thread; r collects the debug fields, the result, the warning, the
\* executions of the action and the calls of the platform mutex
RECURSIVE RunMutex(_, _, _, _)
RunMutex(stmts, r, check, site) ==
    IF stmts = <<>> THEN r
    ELSE LET st == Head(stmts)
             rest == Tail(stmts)
         IN  IF st \in DebugStmts
             THEN RunMutex(rest,
                           [r EXCEPT !.m = DebugStmt(st, r.m, check, site).m,
                                     !.ret = DebugStmt(st, r.m, check, site).ret,
                                     !.warn = DebugStmt(st, r.m, check, site).warn],
                           check, site)
             ELSE IF st = "action"
                  THEN RunMutex(rest, [r EXCEPT !.actions = @ + 1], check, site)
                  ELSE RunMutex(rest, [r EXCEPT !.platform = @ + 1], check, site)

RunStart(m) == [m |-> m, ret |-> 0, warn |-> "none", actions |-> 0, platform |-> 0]

\* the statements before and after the action of a scoped lock
RECURSIVE BeforeAction(_)
BeforeAction(stmts) ==
    IF stmts = <<>> \/ Head(stmts) = "action" THEN <<>>
    ELSE <<Head(stmts)>> \o BeforeAction(Tail(stmts))

RECURSIVE AfterAction(_)
AfterAction(stmts) ==
    IF stmts = <<>> THEN <<>>
    ELSE IF Head(stmts) = "action" THEN Tail(stmts)
         ELSE AfterAction(Tail(stmts))

\* the expansion of a macro in configuration c; the hint is false in all three
Macro(op, c) ==
    CASE op = "lock" -> CCS_THREAD_LOCK(c, FALSE)
      [] op = "trylock" -> CCS_THREAD_TRYLOCK(c, FALSE)
      [] op = "unlock" -> CCS_THREAD_UNLOCK(c, FALSE)
      [] op = "scoped" -> CCS_THREAD_SCOPED_LOCK(c, FALSE)

\* what the caller sees of a call in configuration c: whether it reports
\* acquired, how often the action ran, how often the platform mutex (which
\* can block) was called
Observed(op, c, site) ==
    LET r == RunMutex(Macro(op, c), RunStart(mutex_dbg), service_mutex_check_locks, site)
    IN  [acquired |-> (r.ret = 0), actions |-> r.actions, platform |-> r.platform]

DepthAllows(op) ==
    CASE op = "lock" -> mutex_dbg.m_lock_debug < MaxDepth
      [] op = "unlock" -> mutex_dbg.m_lock_debug > -MaxDepth
      [] OTHER -> TRUE

\* the caller uses lock, trylock or unlock at site, in any state
debugCall(op, site) ==
    /\ DepthAllows(op)
    /\ LET r == RunMutex(Macro(op, "DEBUG"), RunStart(mutex_dbg),
                         service_mutex_check_locks, site)
       IN  /\ mutex_dbg' = r.m
           /\ devt' = [op |-> op, site |-> site, ret |-> r.ret, warn |-> r.warn]
           /\ c_holds' = CASE op = "lock" -> TRUE
                           [] op = "trylock" -> IF r.ret = 0 THEN TRUE ELSE c_holds
                           [] op = "unlock" -> FALSE
    /\ obs' = [c \in Configs |-> Observed(op, c, site)]
    /\ well_behaved' = (/\ well_behaved
                        /\ ~c_in_action
                        /\ IF op = "unlock" THEN c_holds ELSE ~c_holds)
    /\ UNCHANGED <<service_mutex_check_locks, c_in_action>>

\* the caller enters a scoped lock: everything up to the start of the action
scopedEnter(site) ==
    /\ ~c_in_action
    /\ mutex_dbg.m_lock_debug > -MaxDepth
    /\ LET r == RunMutex(BeforeAction(Macro("scoped", "DEBUG")), RunStart(mutex_dbg),
                         service_mutex_check_locks, site)
       IN  /\ mutex_dbg' = r.m
           /\ devt' = [op |-> "scoped_enter", site |-> site, ret |-> r.ret, warn |-> r.warn]
    /\ c_in_action' = TRUE
    /\ well_behaved' = (well_behaved /\ ~c_holds)
    /\ UNCHANGED <<service_mutex_check_locks, c_holds, obs>>

\* the action has ended: the rest of the scoped lock
scopedExit ==
    /\ c_in_action
    /\ mutex_dbg.m_lock_debug < MaxDepth
    /\ LET r == RunMutex(AfterAction(Macro("scoped", "DEBUG")), RunStart(mutex_dbg),
                         service_mutex_check_locks, devt.site)
       IN  /\ mutex_dbg' = r.m
           /\ devt' = [op |-> "scoped_exit", site |-> devt.site, ret |-> r.ret, warn |-> r.warn]
    /\ c_in_action' = FALSE
    /\ obs' = [c \in Configs |-> Observed("scoped", c, devt.site)]
    /\ UNCHANGED <<service_mutex_check_locks, c_holds, well_behaved>>

DebugStart(check) ==
    /\ mutex_dbg = [m_lock_debug |-> 0, m_lock_file |-> "NULL", m_lock_line |-> 0]
    /\ service_mutex_check_locks = check
    /\ c_holds = FALSE
    /\ c_in_action = FALSE
    /\ well_behaved = TRUE
    /\ devt = [op |-> "none", site |-> [file |-> "NULL", line |-> 0], ret |-> 0,
               warn |-> "none"]
    /\ obs = [c \in Configs |-> [acquired |-> TRUE, actions |-> 0, platform |-> 0]]

DebugInit == \E check \in BOOLEAN : DebugStart(check)

DebugIdle == DebugStart(FALSE)

CfgDebug ==
    /\ build = "DEBUG"
    /\ ccs_uses_threads = FALSE

DebugLock == \E site \in Sites : debugCall("lock", site) /\ UNCHANGED <<destroyVars, cfgVars, mutexVars, atomicVars, seqVars, concVars>>
DebugTryLock == \E site \in Sites : debugCall("trylock", site) /\ UNCHANGED <<destroyVars, cfgVars, mutexVars, atomicVars, seqVars, concVars>>
DebugUnlock == \E site \in Sites : debugCall("unlock", site) /\ UNCHANGED <<destroyVars, cfgVars, mutexVars, atomicVars, seqVars, concVars>>
DebugScopedEnter == \E site \in Sites : scopedEnter(site) /\ UNCHANGED <<destroyVars, cfgVars, mutexVars, atomicVars, seqVars, concVars>>
DebugScopedExit == scopedExit /\ UNCHANGED <<destroyVars, cfgVars, mutexVars, atomicVars, seqVars, concVars>>

(* ---- destroy called by concurrent threads ---- *)

\* lines 27-31: pData is read from the handle and the guard is evaluated;
\* the error return leaves everything as it was
destroyCheck(t, h) ==
    /\ dpc[t] = "idle"
    /\ dt[h] # "NULL"
    /\ \A u \in Threads : dh[u] # h
    /\ allocated
    /\ IF GuardRejects(flags, obj_reference_count)
       THEN /\ destroy_call' = [h |-> h, ret |-> "CCS_ERROR",
                                releases |-> destroy_call.releases]
            /\ UNCHANGED <<dpc, dh>>
       ELSE /\ dpc' = [dpc EXCEPT ![t] = "release"]
            /\ dh' = [dh EXCEPT ![t] = h]
            /\ UNCHANGED destroy_call
    /\ UNCHANGED <<flags, obj_reference_count, allocated, dt>>

\* line 33: the release, an atomic decrement that frees at 0
destroyRelease(t) ==
    /\ dpc[t] = "release"
    /\ obj_reference_count' = OBJ_RELEASE(obj_reference_count, allocated).rc
    /\ allocated' = OBJ_RELEASE(obj_reference_count, allocated).allocated
    /\ dpc' = [dpc EXCEPT ![t] = "clear"]
    /\ UNCHANGED <<flags, dt, dh, destroy_call>>

\* lines 34-35: the handle is cleared and success returned
destroyReturn(t) ==
    /\ dpc[t] = "clear"
    /\ dt' = [dt EXCEPT ![dh[t]] = "NULL"]
    /\ destroy_call' = [h |-> dh[t], ret |-> "CCS_SUCCESS",
                        releases |-> destroy_call.releases + 1]
    /\ dpc' = [dpc EXCEPT ![t] = "idle"]
    /\ dh' = [dh EXCEPT ![t] = 0]
    /\ UNCHANGED <<flags, obj_reference_count, allocated>>

ConcIdle ==
    /\ dpc = [t \in Threads |-> "idle"]
    /\ dh = [t \in Threads |-> 0]

CfgThreaded ==
    /\ build = "MT"
    /\ ccs_uses_threads = TRUE

DestroyCheck == \E t \in Threads, h \in Handles : destroyCheck(t, h) /\ UNCHANGED <<cfgVars, mutexVars, atomicVars, seqVars, dbgVars>>
DestroyRelease == \E t \in Threads : destroyRelease(t) /\ UNCHANGED <<cfgVars, mutexVars, atomicVars, seqVars, dbgVars>>
DestroyReturn == \E t \in Threads : destroyReturn(t) /\ UNCHANGED <<cfgVars, mutexVars, atomicVars, seqVars, dbgVars>>

ExtraIdle == SeqIdle /\ DebugIdle /\ ConcIdle

(* ---- specifications ---- *)

Init == DestroyInit /\ CfgIdle /\ MutexInit /\ AtomicIdle /\ ExtraIdle

Next == Destroy

Spec == Init /\ [][Next]_vars

InitMutex == DestroyIdle /\ CfgInit /\ MutexInit /\ AtomicIdle /\ ExtraIdle

NextMutex ==
    \/ Lock
    \/ TryLock
    \/ Unlock
    \/ ScopedLock
    \/ PlatformLock
    \/ PlatformTryLock
    \/ PlatformUnlock
    \/ ActionBegin
    \/ ActionEnd
    \/ SetThreadMode

SpecMutex == InitMutex /\ [][NextMutex]_vars

InitAtomic == DestroyIdle /\ CfgInit /\ MutexInit /\ AtomicInit /\ ExtraIdle

NextAtomic ==
    \/ AtomicAdd
    \/ CompareAndSet
    \/ PlatformAdd
    \/ PlatformCmpset
    \/ PlainLoad
    \/ PlainAddStore
    \/ PlainCmpStore

SpecAtomic == InitAtomic /\ [][NextAtomic]_vars

InitSeq == DestroyIdle /\ CfgIdle /\ MutexInit /\ AtomicIdle /\ SeqInit /\ DebugIdle /\ ConcIdle

NextSeq ==
    \/ SeqAdd
    \/ SeqCmpset

SpecSeq == InitSeq /\ [][NextSeq]_vars

InitDebug == DestroyIdle /\ CfgDebug /\ MutexInit /\ AtomicIdle /\ SeqIdle /\ DebugInit /\ ConcIdle

NextDebug ==
    \/ DebugLock
    \/ DebugTryLock
    \/ DebugUnlock
    \/ DebugScopedEnter
    \/ DebugScopedExit

SpecDebug == InitDebug /\ [][NextDebug]_vars

InitConc == DestroyInit /\ CfgThreaded /\ MutexInit /\ AtomicIdle /\ SeqIdle /\ DebugIdle /\ ConcIdle

NextConc ==
    \/ DestroyCheck
    \/ DestroyRelease
    \/ DestroyReturn

SpecConc == InitConc /\ [][NextConc]_vars

\* every thread runs one scoped lock; a thread that can take a step is
\* scheduled sooner or later
withLockOnce(t) ==
    /\ cur[t] = "none"
    /\ action_runs[t] = 0
    /\ withLock(t)

ScopedLockOnce == \E t \in Threads : withLockOnce(t) /\ UNCHANGED <<destroyVars, cfgVars, atomicVars, extraVars>>

ThreadStep(t) ==
    /\ \/ withLockOnce(t)
       \/ service_mutex_lock(t)
       \/ action_begin(t)
       \/ action_end(t)
       \/ service_mutex_unlock(t)
    /\ UNCHANGED <<destroyVars, cfgVars, atomicVars, extraVars>>

InitFair == DestroyIdle /\ CfgInit /\ MutexInit /\ AtomicIdle /\ ExtraIdle

NextFair ==
    \/ ScopedLockOnce
    \/ PlatformLock
    \/ ActionBegin
    \/ ActionEnd
    \/ PlatformUnlock

SpecFair == InitFair /\ [][NextFair]_vars /\ \A t \in Threads : WF_vars(ThreadStep(t))

(* ======================================================================= *)
(* Properties                                                              *)
(* ======================================================================= *)

IsPredefined == "PREDEFINED" \in flags

\* C1: destroy of a predefined object whose count is at most 1 returns the
\* error and changes nothing: the count, the allocation and every handle
\* (the caller's handle stays non-null) are as before.
C1_GuardRejection ==
    [][(IsPredefined /\ obj_reference_count <= 1)
         => /\ destroy_call'.ret = "CCS_ERROR"
            /\ obj_reference_count' = obj_reference_count
            /\ allocated /\ allocated'
            /\ flags' = flags
            /\ dt' = dt
            /\ dt'[destroy_call'.h] = "pData"]_vars

C1_Witness ==
    /\ destroy_call.ret = "CCS_ERROR"
    /\ IsPredefined
    /\ obj_reference_count = 1
    /\ allocated
    /\ dt[destroy_call.h] = "pData"

\* C2: destroy of a predefined object whose count exceeds 1 returns
\* success, lowers the count by exactly 1, leaves the object allocated and
\* nulls the caller's handle (and no other).
C2_PredefinedRelease ==
    [][(IsPredefined /\ obj_reference_count > 1)
         => /\ destroy_call'.ret = "CCS_SUCCESS"
            /\ obj_reference_count' = obj_reference_count - 1
            /\ allocated'
            /\ dt[destroy_call'.h] = "pData"
            /\ dt' = [dt EXCEPT ![destroy_call'.h] = "NULL"]]_vars

C2_Witness ==
    /\ destroy_call.ret = "CCS_SUCCESS"
    /\ IsPredefined
    /\ obj_reference_count >= 1
    /\ allocated
    /\ dt[destroy_call.h] = "NULL"

\* C3: destroy of an object that is not predefined returns success whatever
\* the count, lowers the count by 1, frees the object exactly when the new
\* count is 0, and nulls the caller's handle.
C3_OrdinaryRelease ==
    [][(~IsPredefined)
         => /\ destroy_call'.ret = "CCS_SUCCESS"
            /\ obj_reference_count' = obj_reference_count - 1
            /\ allocated
            /\ (~allocated') <=> (obj_reference_count' = 0)
            /\ dt[destroy_call'.h] = "pData"
            /\ dt' = [dt EXCEPT ![destroy_call'.h] = "NULL"]]_vars

C3_Witness ==
    /\ destroy_call.ret = "CCS_SUCCESS"
    /\ ~IsPredefined
    /\ obj_reference_count = 0
    /\ ~allocated
    /\ dt[destroy_call.h] = "NULL"

\* C4: whatever destroy calls are made one after the other on a predefined
\* object that starts with a count of at least 1, the object is never freed
\* and its count never falls below 1.
C4_PredefinedFloor ==
    IsPredefined => (allocated /\ obj_reference_count >= 1)

\* a predefined object that was released down to the floor and then refused
C4_Witness ==
    /\ IsPredefined
    /\ destroy_call.ret = "CCS_ERROR"
    /\ obj_reference_count = 1
    /\ destroy_call.releases >= 2

\* C5: in a multithread build with the hint true throughout, at most one
\* thread is between a completed lock (or successful trylock) and its
\* unlock, and that thread owns the platform mutex.
C5_MutualExclusion ==
    (build = "MT" /\ always_threaded)
        => /\ Cardinality({t \in Threads : holds[t]}) <= 1
           /\ \A t \in Threads : holds[t] => m_owner = t

\* one thread holds the mutex while another is blocked in lock
C5_Witness ==
    /\ build = "MT" /\ always_threaded
    /\ \E t1, t2 \in Threads :
          /\ t1 # t2
          /\ holds[t1]
          /\ cur[t2] = "lock" /\ AtHead(t2, "service_mutex_lock")

\* C6: in a multithread build, a lock, trylock or unlock that finds the
\* hint false invokes no platform primitive, leaves the mutex as it was
\* and returns at once; the trylock reports 0 (acquired).
C6_ElidedWhenHintFalse ==
    [][(/\ build = "MT"
        /\ ~ccs_uses_threads
        /\ mop'.op \in {"lock", "trylock", "unlock"}
        /\ mop'.stmt = "call")
         => /\ m_owner' = m_owner
            /\ prog'[mop'.t] = <<>>
            /\ cur'[mop'.t] = "none"
            /\ mop'.done
            /\ (mop'.op = "trylock") => (mop'.ret = 0 /\ holds'[mop'.t])]_vars

\* an elided unlock while the platform mutex is held by another thread
C6_Witness ==
    /\ build = "MT"
    /\ ~ccs_uses_threads
    /\ mop.op = "unlock" /\ mop.stmt = "call" /\ mop.done
    /\ m_owner \notin {0, mop.t}

\* thread t is inside the locked branch of a scoped lock, at or in the action
InLockedAction(t) ==
    /\ cur[t] = "scoped"
    /\ prog[t] # <<>>
    /\ Head(prog[t]) \in {"action", "action_running"}

\* thread t is inside the branch of a scoped lock that takes no lock
InPlainAction(t) ==
    /\ cur[t] = "scoped"
    /\ prog[t] \in {<<"action">>, <<"action_running">>}

\* C7: with the hint true throughout (multithread build) a scoped lock owns
\* the mutex from before the action starts until the action has ended, and
\* no longer owns it on return, the action having run once; where threading
\* is disabled (multithread build with the hint false, or the plain build)
\* the action runs exactly once and the platform mutex is not touched.
C7_ScopedLock ==
    [][\A t \in Threads :
        /\ (build = "MT" /\ always_threaded' /\ InLockedAction(t)')
              => m_owner' = t
        /\ (build = "MT" /\ always_threaded /\ mop'.t = t /\ mop'.op = "scoped"
              /\ mop'.stmt = "action_running")
              => (m_owner = t /\ m_owner' = t)
        /\ (build = "MT" /\ always_threaded /\ mop'.t = t /\ mop'.op = "scoped"
              /\ mop'.done)
              => /\ mop'.stmt = "service_mutex_unlock"
                 /\ m_owner = t
                 /\ m_owner' # t
                 /\ action_runs'[t] = 1
        /\ (~(build = "MT" /\ ccs_uses_threads) /\ mop'.t = t /\ mop'.op = "scoped"
              /\ mop'.stmt = "call")
              => (prog'[t] = <<"action">> /\ m_owner' = m_owner)
        /\ (InPlainAction(t) /\ mop'.t = t)
              => /\ m_owner' = m_owner
                 /\ mop'.stmt \in {"action", "action_running"}
                 /\ mop'.done => action_runs'[t] = 1]_vars

\* a scoped lock that took the mutex has just returned
C7_Witness ==
    /\ build = "MT" /\ always_threaded
    /\ mop.op = "scoped" /\ mop.done /\ mop.stmt = "service_mutex_unlock"
    /\ action_runs[mop.t] = 1
    /\ m_owner = 0
    /\ \E t \in Threads : t # mop.t /\ AtHead(t, "service_mutex_lock")

\* C8: a compare-and-set, on the atomic path and on the plain path alike,
\* reports success exactly when the word equals the expected value at the
\* step that completes it; on success the word becomes the new value, on
\* failure the word is unchanged.
C8_CompareAndSet ==
    [][\A t \in Threads :
        (aevt'.t = t /\ aevt'.op = "cmpset" /\ aevt'.done)
          => /\ acall'[t].ret \in {0, 1}
             /\ (acall'[t].ret = 1) <=> (mem = acall[t].a)
             /\ (acall'[t].ret = 1) => (mem' = acall[t].b)
             /\ (acall'[t].ret = 0) => (mem' = mem)]_vars

\* a compare-and-set on the plain path has just succeeded and changed the word
C8_Witness ==
    /\ ~(build = "MT" /\ ccs_uses_threads)
    /\ aevt.op = "cmpset" /\ aevt.done /\ aevt.stmt = "cmp_store"
    /\ acall[aevt.t].ret = 1
    /\ mem = acall[aevt.t].b
    /\ mem # mem0

\* the threads that have called an atomic operation
Callers == {t \in Threads : acall[t].op # "none"}

\* at least two threads have called, all of them compare-and-set with the
\* expected value e, and all have returned
ConcurrentCmpset(e) ==
    /\ Cardinality(Callers) >= 2
    /\ \A t \in Callers : acall[t].op = "cmpset" /\ acall[t].done /\ acall[t].a = e

Successes == {t \in Callers : acall[t].ret = 1}

\* C9 as stated: with threading enabled, of the concurrent compare-and-set
\* callers that pass the same expected value exactly one succeeds.
C9_ExactlyOneSucceeds ==
    (build = "MT" /\ ccs_uses_threads)
        => \A e \in Vals : ConcurrentCmpset(e) => Cardinality(Successes) = 1

\* C9 as amended: with threading enabled, of the concurrent compare-and-set
\* callers that pass the same expected value and new values different from
\* it, exactly one succeeds if the word held the expected value when they
\* started, and none succeeds otherwise.
C9_ExactlyOneOfDistinct ==
    (build = "MT" /\ ccs_uses_threads)
        => \A e \in Vals :
             (ConcurrentCmpset(e) /\ \A t \in Callers : acall[t].b # e)
                => Cardinality(Successes) = (IF mem0 = e THEN 1 ELSE 0)

\* two callers raced for the expected value: one won, one lost
C9_Witness ==
    /\ build = "MT" /\ ccs_uses_threads
    /\ ConcurrentCmpset(mem0)
    /\ \A t \in Callers : acall[t].b # mem0
    /\ \E t1, t2 \in Callers : acall[t1].ret = 1 /\ acall[t2].ret = 0
    /\ \E t \in Callers : acall[t].ret = 1 /\ mem = acall[t].b

RECURSIVE SumDeltas(_)
SumDeltas(S) ==
    IF S = {} THEN 0
    ELSE LET t == CHOOSE x \in S : TRUE
         IN  acall[t].a + SumDeltas(S \ {t})

\* so far only additions have been called
AddsOnly == \A t \in Threads : acall[t].op \in {"none", "add"}

\* C10: with threading enabled no concurrent addition is lost: the word is
\* its initial value plus the deltas of all additions that have returned
\* (2 after two threads added 1 to 0), and an addition returns the value it
\* has just stored.
C10_NoLostUpdate ==
    (build = "MT" /\ ccs_uses_threads /\ AddsOnly)
        => /\ mem = mem0 + SumDeltas({t \in Threads : acall[t].done})
           /\ (aevt.op = "add" /\ aevt.done) => acall[aevt.t].ret = mem

\* every thread has added 1 to a counter that started at 0
C10_Witness ==
    /\ build = "MT" /\ ccs_uses_threads
    /\ mem0 = 0
    /\ \A t \in Threads : acall[t].op = "add" /\ acall[t].done /\ acall[t].a = 1
    /\ mem = NumThreads
    /\ acall[aevt.t].ret = NumThreads

\* C11: whatever calls a single-threaded caller makes from the same initial
\* word, the atomic path, the fallback path of the multithread build and the
\* build without threads return the same values and leave the same word.
C11_PathsAgree ==
    \A p, q \in Paths : smem[p] = smem[q] /\ sret[p] = sret[q]

\* a sequence that ends in a successful compare-and-set after an addition
\* had changed the word
C11_Witness ==
    /\ scall.n >= 2
    /\ scall.op = "cmpset"
    /\ scall.a # scall.b
    /\ scall.a # scall.m0
    /\ \A p \in Paths : sret[p] = 1 /\ smem[p] = scall.b

\* C12: a ccs_set_using_threads(have) stores have in a multithread build and
\* false in any other build, and returns what it stored; no other step
\* changes the hint, so ccs_using_threads() is the value last stored; once it
\* has been called in a build without thread support the hint is false.
C12_SetThreadMode ==
    [][/\ (mop'.op = "set")
            => /\ ccs_uses_threads' = (IF build = "MT" THEN mop'.arg = 1 ELSE FALSE)
               /\ (mop'.ret = 1) <=> ccs_uses_threads'
               /\ mop'.ret \in {0, 1}
       /\ (mop'.op # "set") => (ccs_uses_threads' = ccs_uses_threads)
       /\ (build' # "MT" /\ hint_sets' > 0) => ~ccs_uses_threads']_vars

\* true was requested in a build without thread support: false is stored
\* and returned
C12_Witness ==
    /\ build # "MT"
    /\ mop.op = "set" /\ mop.arg = 1
    /\ mop.ret = 0
    /\ ~ccs_uses_threads

\* C13: for a well-behaved single-threaded caller the three configurations
\* (multithread build with the hint false, diagnostic build, plain build) give
\* the same observation of every call: the same acquired result (always
\* acquired), the same executions of the action, and no call of the platform
\* mutex, the only operation that can block.
C13_ConfigsAgree ==
    well_behaved =>
        /\ \A c1, c2 \in Configs : obs[c1] = obs[c2]
        /\ \A c \in Configs : obs[c].acquired /\ obs[c].platform = 0

\* a well-behaved trylock of an unheld mutex: acquired in all three
\* configurations, depth 1 in the diagnostic build
C13_Witness ==
    /\ well_behaved
    /\ devt.op = "trylock"
    /\ c_holds
    /\ \A c \in Configs : obs[c].acquired /\ obs[c].actions = 0
    /\ mutex_dbg.m_lock_debug = 1

\* C15 (as stated): in the diagnostic build the depth of a correctly used
\* mutex is 0 or 1 in every reachable state, the states in which the action of
\* a scoped lock runs included.
C15_DepthZeroOrOne ==
    well_behaved => mutex_dbg.m_lock_debug \in {0, 1}

\* C16 (as stated): the diagnostic lock adds 1 to the depth, warns exactly
\* when the new depth is not 1, records the caller's site, and completes.
C16_LockWarnsOffOne ==
    [][(devt'.op = "lock") =>
          /\ mutex_dbg'.m_lock_debug = mutex_dbg.m_lock_debug + 1
          /\ (devt'.warn # "none") <=> (mutex_dbg'.m_lock_debug # 1)
          /\ mutex_dbg'.m_lock_file = devt'.site.file
          /\ mutex_dbg'.m_lock_line = devt'.site.line
          /\ devt'.ret = 0]_vars

\* C16 (amended): the diagnostic lock adds 1 to the depth, warns exactly when
\* lock checking is enabled and the new depth is not 1, records the caller's
\* site, and completes, whatever the depth was.
C16_LockWarnsIfChecking ==
    [][(devt'.op = "lock") =>
          /\ mutex_dbg'.m_lock_debug = mutex_dbg.m_lock_debug + 1
          /\ (devt'.warn # "none") <=>
                 (service_mutex_check_locks /\ mutex_dbg'.m_lock_debug # 1)
          /\ mutex_dbg'.m_lock_file = devt'.site.file
          /\ mutex_dbg'.m_lock_line = devt'.site.line
          /\ devt'.ret = 0]_vars

\* a lock of a mutex that already had depth 1: warned, depth 2, site recorded
C16_Witness ==
    /\ devt.op = "lock"
    /\ devt.warn = "already locked"
    /\ mutex_dbg.m_lock_debug = 2
    /\ mutex_dbg.m_lock_file = devt.site.file

\* C17 (as stated): the diagnostic trylock reports acquired iff the depth was
\* 0, and then the depth is 1 and the site recorded; otherwise it warns,
\* reports failure and leaves depth and site unchanged.
C17_TryLockWarns ==
    [][(devt'.op = "trylock") =>
          /\ (devt'.ret = 0) <=> (mutex_dbg.m_lock_debug = 0)
          /\ (devt'.ret = 0) =>
                /\ mutex_dbg'.m_lock_debug = 1
                /\ mutex_dbg'.m_lock_file = devt'.site.file
                /\ mutex_dbg'.m_lock_line = devt'.site.line
                /\ devt'.warn = "none"
          /\ (devt'.ret # 0) =>
                /\ devt'.warn # "none"
                /\ mutex_dbg' = mutex_dbg]_vars

\* C17 (amended): as above, but on failure the warning is emitted exactly
\* when lock checking is enabled.
C17_TryLockWarnsIfChecking ==
    [][(devt'.op = "trylock") =>
          /\ (devt'.ret = 0) <=> (mutex_dbg.m_lock_debug = 0)
          /\ (devt'.ret = 0) =>
                /\ mutex_dbg'.m_lock_debug = 1
                /\ mutex_dbg'.m_lock_file = devt'.site.file
                /\ mutex_dbg'.m_lock_line = devt'.site.line
                /\ devt'.warn = "none"
          /\ (devt'.ret # 0) =>
                /\ (devt'.warn # "none") <=> service_mutex_check_locks
                /\ mutex_dbg' = mutex_dbg]_vars

\* a failed trylock from another site than the one that holds the mutex:
\* warned, depth and recorded site as they were
C17_Witness ==
    /\ devt.op = "trylock"
    /\ devt.ret = -1
    /\ devt.warn = "trylock already locked"
    /\ mutex_dbg.m_lock_debug = 1
    /\ mutex_dbg.m_lock_file # "NULL"
    /\ mutex_dbg.m_lock_file # devt.site.file

\* C18 (as stated): the diagnostic unlock subtracts 1 from the depth; a
\* negative result gives the double-unlock warning and keeps the site, any
\* other result gives no warning and clears the site; the "not locked"
\* warning is never emitted.
C18_UnlockWarnsNegative ==
    [][(devt'.op = "unlock") =>
          /\ mutex_dbg'.m_lock_debug = mutex_dbg.m_lock_debug - 1
          /\ (mutex_dbg'.m_lock_debug < 0) =>
                /\ devt'.warn = "double locked"
                /\ mutex_dbg'.m_lock_file = mutex_dbg.m_lock_file
                /\ mutex_dbg'.m_lock_line = mutex_dbg.m_lock_line
          /\ (mutex_dbg'.m_lock_debug >= 0) =>
                /\ devt'.warn = "none"
                /\ mutex_dbg'.m_lock_file = "NULL"
                /\ mutex_dbg'.m_lock_line = 0
          /\ devt'.warn # "not locked"]_vars

\* C18 (amended): the double-unlock warning and the kept site need lock
\* checking to be enabled as well as a negative result; in every other case
\* there is no warning and the site is cleared; "not locked" is never emitted.
C18_UnlockWarnsIfChecking ==
    [][(devt'.op = "unlock") =>
          /\ mutex_dbg'.m_lock_debug = mutex_dbg.m_lock_debug - 1
          /\ (service_mutex_check_locks /\ mutex_dbg'.m_lock_debug < 0) =>
                /\ devt'.warn = "double locked"
                /\ mutex_dbg'.m_lock_file = mutex_dbg.m_lock_file
                /\ mutex_dbg'.m_lock_line = mutex_dbg.m_lock_line
          /\ ~(service_mutex_check_locks /\ mutex_dbg'.m_lock_debug < 0) =>
                /\ devt'.warn = "none"
                /\ mutex_dbg'.m_lock_file = "NULL"
                /\ mutex_dbg'.m_lock_line = 0
          /\ devt'.warn # "not locked"]_vars

\* an unlock that took the depth below 0 with checking enabled: warned, the
\* recorded site kept
C18_Witness ==
    /\ devt.op = "unlock"
    /\ service_mutex_check_locks
    /\ mutex_dbg.m_lock_debug = -1
    /\ devt.warn = "double locked"
    /\ mutex_dbg.m_lock_file # "NULL"

\* C14 (as stated): whatever the interleaving of the destroy calls of
\* concurrent threads on a predefined object, with threading enabled and the
\* release an atomic decrement, the object is never freed and its count never
\* falls below 1.
C14_ConcurrentFloor ==
    (IsPredefined /\ build = "MT" /\ ccs_uses_threads)
        => (allocated /\ obj_reference_count >= 1)

\* C19: with threading enabled and every thread running one scoped lock whose
\* action terminates and does not use the mutex, under fair scheduling every
\* thread completes its scoped lock and the mutex ends unheld.
C19_AllComplete ==
    (build = "MT" /\ ccs_uses_threads)
        => <>[](/\ \A t \in Threads : cur[t] = "none" /\ action_runs[t] = 1
                /\ m_owner = 0)

\* the last thread has released the mutex after all actions have run
C19_Witness ==
    /\ build = "MT" /\ ccs_uses_threads
    /\ \A t \in Threads : cur[t] = "none" /\ action_runs[t] = 1
    /\ m_owner = 0
    /\ mop.stmt = "service_mutex_unlock" /\ mop.done

\* C20: in a multithread build a scoped lock reads the hint once, on entry:
\* it starts as lock, action, unlock if the hint is true and as the action
\* alone if it is false, and then proceeds through that sequence whatever is
\* stored in the hint meanwhile. So the platform unlock is invoked after the
\* action iff the platform lock was invoked before it; the scoped lock that
\* locked does not return as owner, and the one that did not lock leaves the
\* mutex as it is.
C20_ScopedPairing ==
    [][build = "MT" =>
        \A t \in Threads :
          /\ (cur[t] = "none" /\ cur'[t] = "scoped") =>
                prog'[t] = (IF ccs_uses_threads
                            THEN <<"service_mutex_lock", "action", "service_mutex_unlock">>
                            ELSE <<"action">>)
          /\ (cur[t] = "scoped" /\ prog'[t] # prog[t]) =>
                /\ (prog[t] = <<"service_mutex_lock", "action", "service_mutex_unlock">>) =>
                       (prog'[t] = <<"action", "service_mutex_unlock">> /\ m_owner' = t)
                /\ (prog[t] = <<"action", "service_mutex_unlock">>) =>
                       (prog'[t] = <<"action_running", "service_mutex_unlock">>)
                /\ (prog[t] = <<"action_running", "service_mutex_unlock">>) =>
                       (prog'[t] = <<"service_mutex_unlock">>)
                /\ (prog[t] = <<"service_mutex_unlock">>) =>
                       (prog'[t] = <<>> /\ cur'[t] = "none" /\ m_owner' # t
                        /\ mop'.stmt = "service_mutex_unlock")
                /\ (prog[t] = <<"action">>) =>
                       (prog'[t] = <<"action_running">> /\ m_owner' = m_owner)
                /\ (prog[t] = <<"action_running">>) =>
                       (prog'[t] = <<>> /\ cur'[t] = "none" /\ m_owner' = m_owner)
                /\ prog[t] \in {<<"service_mutex_lock", "action", "service_mutex_unlock">>,
                                <<"action", "service_mutex_unlock">>,
                                <<"action_running", "service_mutex_unlock">>,
                                <<"service_mutex_unlock">>,
                                <<"action">>,
                                <<"action_running">>}]_vars

\* a scoped lock that locked on entry returns through the platform unlock
\* although the hint was set to false while its action ran
C20_Witness ==
    /\ build = "MT"
    /\ ~ccs_uses_threads
    /\ mop.op = "scoped" /\ mop.done
    /\ mop.stmt = "service_mutex_unlock"
    /\ m_owner = 0

====
